---- MODULE Spec2Model ----
(***************************************************************************)
(* The per-user dialog state machine and update dispatcher of the lyrics   *)
(* bot (src/unnamed/part_000, the current main.go; src/main.go is an       *)
(* earlier revision without the Edit flow and the photo upload).           *)
(*                                                                         *)
(* Button labels carry an emoji in the source; the emoji is written here   *)
(* as a bracketed ASCII tag, e.g. "[plus] Add Song".  The label the switch *)
(* of handleUpdate matches for Help is "[question] Help", the label the    *)
(* main-menu keyboard sends is "[pencil] Help".                            *)
(*                                                                         *)
(* The Mongo collection, the Telegram transport and the image host are     *)
(* external: every call to them is recorded as an effect, and its result   *)
(* is an input of the update being handled (field outcome).                *)
(*                                                                         *)
(* Four specifications: Spec, the update loop with each handler as one     *)
(* step; GateSpec, the same loop started on a table that holds a session   *)
(* of a user outside adminIDs; StepSpec, the loop with the handler's       *)
(* accesses of the session table as separate steps; RepeatSpec, the loop   *)
(* of Spec with the history of completed dialogs kept.                     *)
(***************************************************************************)
EXTENDS FiniteSets, Integers, Sequences, TLC

VARIABLES
    userStates,   \* the session table (var userStates)
    pc,           \* where the update loop of main is: "receive" or "handled"
    update,       \* the update the loop has just handled
    effects,      \* the external calls its handler made, in order
    prevStates,   \* the session table as the handler found it
    run,          \* history: per user, the dialog inputs sent since Add or Edit
    cancelled,    \* history: the users whose dialog was ended by /cancel and who
                  \* have not pressed Add or Edit since
    completed,    \* history, kept when completed.on: the message that ended each
                  \* user's last dialog with a write to the collection, until
                  \* that user presses Add or Edit again
    handlers      \* the calls of a handler that have not returned, each with the
                  \* point it has reached (used by StepSpec, where a handler
                  \* takes several steps)

vars == <<userStates, pc, update, effects, prevStates, run, cancelled, completed, handlers>>

-----------------------------------------------------------------------------
(* Users and the authorization gate *)

adminIDs == {547900737, 1237680623}

\* The senders of updates: the two administrators and one other user.
Users == adminIDs \cup {424242}

\* Mutant: the gate lets every user through.
isAdmin_Everyone(userID) == TRUE

isAdmin(userID) == \E id \in adminIDs : id = userID

-----------------------------------------------------------------------------
(* Session store: the Go map userStates, int -> UserState *)

ZeroState ==
    [Stage |-> "", Title |-> "", Lyrics |-> "", Category |-> "",
     IsEditing |-> FALSE, EditField |-> ""]

\* state, exists := userStates[id]
Exists(us, id) == id \in DOMAIN us
Get(us, id) == IF id \in DOMAIN us THEN us[id] ELSE ZeroState

\* userStates[id] = s
Put(us, id, s) == [k \in DOMAIN us \cup {id} |-> IF k = id THEN s ELSE us[k]]

\* Mutant: the delete empties the table.
Delete_Clears(us, id) == <<>>

\* delete(userStates, id)
Delete(us, id) == [k \in DOMAIN us \ {id} |-> us[k]]

-----------------------------------------------------------------------------
(* Texts *)

SearchLyricsLabel == "[music] Search Lyrics"
ViewAllLabel == "[memo] View All Songs"
UploadImageLabel == "[up] Upload Image"
AddSongLabel == "[plus] Add Song"
HelpLabel == "[question] Help"
ChoirSongsLabel == "[people] Choir Songs"
NonChoirSongsLabel == "[music] Non-Choir Songs"
EditSongLabel == "[pencil] Edit Song"
RandomSongLabel == "[dice] Random Song"

\* The labels the button switch of handleUpdate matches.
ButtonLabels ==
    {SearchLyricsLabel, ViewAllLabel, UploadImageLabel, AddSongLabel, HelpLabel,
     ChoirSongsLabel, NonChoirSongsLabel, EditSongLabel, RandomSongLabel}

\* The Help label of the main-menu keyboard (sendMainMenu).
MenuHelpLabel == "[pencil] Help"

\* The labels of the main-menu keyboard, row by row.
MenuLabels ==
    {SearchLyricsLabel, ViewAllLabel, ChoirSongsLabel, NonChoirSongsLabel,
     UploadImageLabel, AddSongLabel, EditSongLabel, RandomSongLabel, MenuHelpLabel}

EditLabels == {"Edit Title", "Edit Lyrics", "Edit Category", "Edit Image"}

\* strings.Split(text, " ") of the texts the model sends.
SplitSpace(text) ==
    CASE text = "Edit Title" -> <<"Edit", "Title">>
      [] text = "Edit Lyrics" -> <<"Edit", "Lyrics">>
      [] text = "Edit Category" -> <<"Edit", "Category">>
      [] text = "Edit Image" -> <<"Edit", "Image">>
      [] text = MenuHelpLabel -> <<"[pencil]", "Help">>
      [] OTHER -> <<text>>

\* strings.ToLower of the words the model lower-cases.
ToLower(word) ==
    CASE word = "Title" -> "title"
      [] word = "Lyrics" -> "lyrics"
      [] word = "Category" -> "category"
      [] word = "Image" -> "image"
      [] word = "Edit" -> "edit"
      [] word = "Help" -> "help"
      [] OTHER -> word

\* strings.ToUpper of a message text, for the one-letter texts of the model.
ToUpper(text) == IF text = "a" THEN "A" ELSE text

\* The link uploadImageToImgur returns on success.
ImgurLink == "https://i.imgur.com/up.jpg"

-----------------------------------------------------------------------------
(* Effects: the calls a handler makes on the transport, the collection and *)
(* the image host, in order.                                               *)

Send(text) == [op |-> "Send", arg |-> text]
SendPhoto(url) == [op |-> "SendPhoto", arg |-> url]
FindOne(title) == [op |-> "FindOne", arg |-> [title |-> title]]
Find(filter) == [op |-> "Find", arg |-> filter]
Aggregate == [op |-> "Aggregate", arg |-> "sample"]
InsertOne(doc) == [op |-> "InsertOne", arg |-> doc]
UpdateOne(title, field, value) ==
    [op |-> "UpdateOne", arg |-> [filter |-> [title |-> title], set |-> (field :> value)]]
GetFileDirectURL == [op |-> "GetFileDirectURL", arg |-> "FileID"]
DownloadFile == [op |-> "downloadFile", arg |-> "temp_image.jpg"]
UploadToImgur == [op |-> "uploadImageToImgur", arg |-> "temp_image.jpg"]
AnswerCallback == [op |-> "AnswerCallbackQuery", arg |-> ""]

\* What a handler returns: the session table and the effects it issued.
Result(us, fx) == [userStates |-> us, effects |-> fx]

-----------------------------------------------------------------------------
(* Updates.  One record shape for every update:                            *)
(*   kind     "message" (update.Message), "callback" (update.CallbackQuery)*)
(*            or "other" (neither, e.g. an edited message)                 *)
(*   from     the sender                                                   *)
(*   command  Message.Command() when Message.IsCommand(), else ""          *)
(*   args     Message.CommandArguments(), as a sequence of tokens          *)
(*   text     Message.Text of a message that is no command ("" for a photo *)
(*            or any other message without text)                           *)
(*   photo    Message.Photo != nil                                         *)
(*   data     CallbackQuery.Data                                           *)
(*   outcome  the result of the external calls made while the update is    *)
(*            handled: "ok", or the first call that fails ("db_err",       *)
(*            "getfile_err", "download_err", "upload_err"), or "not_found" *)
(*            when a query succeeds and matches no document.               *)

IsCommand(m) == m.command # ""

\* err != nil of FindOne(...).Decode: no document, or a failed query.
FindOneErr(m) == m.outcome \in {"not_found", "db_err"}
\* err != nil of InsertOne, UpdateOne, Find, Aggregate.
DbErr(m) == m.outcome = "db_err"
\* A Find or Aggregate cursor without a document.
NoDocs(m) == m.outcome = "not_found"

-----------------------------------------------------------------------------
(* Command arguments *)

Sep == "|"
Space == " "

RECURSIVE Concat(_)
\* The string a token sequence spells.
Concat(toks) == IF toks = <<>> THEN "" ELSE Head(toks) \o Concat(Tail(toks))

\* strings.Index: the first position of tok in toks, 0 when absent.
IndexOf(toks, tok) ==
    IF \E i \in 1..Len(toks) : toks[i] = tok
    THEN CHOOSE i \in 1..Len(toks) : toks[i] = tok /\ \A j \in 1..(i - 1) : toks[j] # tok
    ELSE 0

RECURSIVE SplitN(_, _, _)
\* strings.SplitN(s, sep, n), n > 0: at most n parts, the last one unsplit.
SplitN(toks, sep, n) ==
    LET i == IndexOf(toks, sep) IN
    IF n = 1 \/ i = 0
    THEN <<toks>>
    ELSE <<SubSeq(toks, 1, i - 1)>> \o SplitN(SubSeq(toks, i + 1, Len(toks)), sep, n - 1)

RECURSIVE TrimLeft(_)
TrimLeft(toks) ==
    IF toks # <<>> /\ Head(toks) = Space THEN TrimLeft(Tail(toks)) ELSE toks

RECURSIVE TrimRight(_)
TrimRight(toks) ==
    IF toks # <<>> /\ toks[Len(toks)] = Space
    THEN TrimRight(SubSeq(toks, 1, Len(toks) - 1))
    ELSE toks

\* strings.TrimSpace
TrimSpace(toks) == TrimRight(TrimLeft(toks))

-----------------------------------------------------------------------------
(* Stateless handlers: they read the collection and send messages *)

MainMenuText == "Welcome to Our Marantha Choir Lyrics Bot! Please select an option:"

sendMainMenu == <<Send(MainMenuText)>>

helpCommand == <<Send("Here are some commands you can use: ...")>>

\* getLyricsFromDB followed by the two branches of its callers.
LookupAndShow(m, songTitle) ==
    <<FindOne(songTitle)>> \o
    IF FindOneErr(m)
    THEN <<Send("Sorry, I couldn't find the lyrics for that song.")>>
    ELSE <<SendPhoto("imageURL"), Send("lyrics")>>

lyricsCommand(m) == LookupAndShow(m, Concat(m.args))

\* The media pipeline of a photo: the calls made and whether they all succeeded.
MediaCalls(m) ==
    CASE m.outcome = "getfile_err" -> <<GetFileDirectURL>>
      [] m.outcome = "download_err" -> <<GetFileDirectURL, DownloadFile>>
      [] OTHER -> <<GetFileDirectURL, DownloadFile, UploadToImgur>>

MediaFailure(m) ==
    CASE m.outcome = "getfile_err" -> "Failed to process image."
      [] m.outcome = "download_err" -> "Failed to download image."
      [] m.outcome = "upload_err" -> "Failed to upload image to Imgur."
      [] OTHER -> ""

uploadImageCommand(m) ==
    IF ~m.photo
    THEN <<Send("Please attach an image to upload.")>>
    ELSE MediaCalls(m) \o
         IF MediaFailure(m) # ""
         THEN <<Send(MediaFailure(m))>>
         ELSE <<Send("Image uploaded successfully: " \o ImgurLink)>>

addSongCommand(m) ==
    LET args == SplitN(m.args, Sep, 3) IN
    IF Len(args) # 3
    THEN <<Send("Usage: /addsong <title>|<lyrics>|<image_url>")>>
    ELSE <<InsertOne([title |-> Concat(TrimSpace(args[1])),
                      lyrics |-> Concat(TrimSpace(args[2])),
                      image |-> Concat(TrimSpace(args[3]))])>> \o
         IF DbErr(m)
         THEN <<Send("Failed to add song.")>>
         ELSE <<Send("Song added successfully!")>>

\* defaultMessage with getSuggestions
defaultMessage(m) ==
    <<Find("^" \o m.command), Send("You said: ...")>>

\* The one-byte strings s with "A" <= s <= "Z".
Letters ==
    {"A", "B", "C", "D", "E", "F", "G", "H", "I", "J", "K", "L", "M",
     "N", "O", "P", "Q", "R", "S", "T", "U", "V", "W", "X", "Y", "Z"}

handleAlphabetSelection(m) ==
    LET alphabet == ToUpper(m.text) IN
    IF Len(alphabet) # 1 \/ alphabet \notin Letters
    THEN <<Send("Please select a valid alphabet (A-Z).")>>
    ELSE <<Find("^" \o alphabet)>> \o
         IF DbErr(m) THEN <<>>
         ELSE IF NoDocs(m)
         THEN <<Send("No songs found starting with " \o alphabet \o ".")>>
         ELSE <<Send("Select a song to get the lyrics:")>>

showSongsByCategory(m, category) ==
    <<Find([category |-> category])>> \o
    IF DbErr(m) THEN <<>>
    ELSE IF NoDocs(m)
    THEN <<Send("No " \o category \o " songs found.")>>
    ELSE <<Send("Select a " \o category \o " song:")>>

getRandomSong(m) ==
    <<Aggregate>> \o
    IF DbErr(m) THEN <<Send("Failed to get random song.")>>
    ELSE IF NoDocs(m)
    THEN <<Send("No songs found in the database.")>>
    ELSE <<SendPhoto("imageURL"), Send("Title: ... Category: ... Lyrics: ...")>>

PlaceholderTokens ==
    {"popular_series", "new_series", "popular_movies", "new_movies",
     "popular_anime", "new_anime"}

\* Mutant: a callback ends the dialog of its sender.
handleCallbackQuery_EndsDialog(us, m) ==
    Result([k \in DOMAIN us \ {m.from} |-> us[k]],
           (IF m.data \in PlaceholderTokens
            THEN <<Send("You selected: " \o m.data \o " This feature is coming soon!")>>
            ELSE LookupAndShow(m, m.data))
           \o <<AnswerCallback>>)

handleCallbackQuery(us, m) ==
    Result(us,
           (IF m.data \in PlaceholderTokens
            THEN <<Send("You selected: " \o m.data \o " This feature is coming soon!")>>
            ELSE LookupAndShow(m, m.data))
           \o <<AnswerCallback>>)

-----------------------------------------------------------------------------
(* handleUpdate: commands *)

NotAuthorized(what) == <<Send("You are not authorized to " \o what \o ".")>>

\* Mutant: /cancel answers and leaves the session.
CancelCommand_KeepsSession(us, m) ==
    IF m.from \in DOMAIN us THEN Result(us, <<Send("Song addition cancelled.")>>) ELSE Result(us, <<>>)

\* Mutant: /cancel is open to the users of adminIDs only.
CancelCommand_Gated(us, m) ==
    IF m.from \in DOMAIN us
    THEN IF isAdmin(m.from)
         THEN Result([k \in DOMAIN us \ {m.from} |-> us[k]],
                     <<Send("Song addition cancelled.")>>)
         ELSE Result(us, NotAuthorized("cancel"))
    ELSE Result(us, <<>>)

CancelCommand(us, m) ==
    IF Exists(us, m.from)
    THEN Result(Delete(us, m.from), <<Send("Song addition cancelled.")>>)
    ELSE Result(us, <<>>)

\* Mutant: /addsong ends the dialog of its sender.
CommandSwitch_AddsongEndsDialog(us, m) ==
    CASE m.command = "start" -> Result(us, sendMainMenu)
      [] m.command = "help" -> Result(us, helpCommand)
      [] m.command = "lyrics" -> Result(us, lyricsCommand(m))
      [] m.command = "addsong" ->
            IF isAdmin(m.from)
            THEN Result([k \in DOMAIN us \ {m.from} |-> us[k]], addSongCommand(m))
            ELSE Result(us, NotAuthorized("add songs"))
      [] m.command = "uploadimage" ->
            IF isAdmin(m.from)
            THEN Result(us, uploadImageCommand(m))
            ELSE Result(us, NotAuthorized("upload images"))
      [] m.command = "cancel" -> CancelCommand(us, m)
      [] OTHER -> Result(us, defaultMessage(m))

CommandSwitch(us, m) ==
    CASE m.command = "start" -> Result(us, sendMainMenu)
      [] m.command = "help" -> Result(us, helpCommand)
      [] m.command = "lyrics" -> Result(us, lyricsCommand(m))
      [] m.command = "addsong" ->
            IF isAdmin(m.from)
            THEN Result(us, addSongCommand(m))
            ELSE Result(us, NotAuthorized("add songs"))
      [] m.command = "uploadimage" ->
            IF isAdmin(m.from)
            THEN Result(us, uploadImageCommand(m))
            ELSE Result(us, NotAuthorized("upload images"))
      [] m.command = "cancel" -> CancelCommand(us, m)
      [] OTHER -> Result(us, defaultMessage(m))

-----------------------------------------------------------------------------
(* handleUpdate: the Add and Edit buttons *)

\* Mutant: the Add button without the gate.
AddSongButton_NoGate(us, m) ==
    Result([k \in DOMAIN us \cup {m.from} |->
               IF k = m.from THEN [ZeroState EXCEPT !.Stage = "awaiting_title"] ELSE us[k]],
           <<Send("Please enter the song title: (or type /cancel to abort)")>>)

\* Mutant: the Add button restarts the dialog on the session it finds.
AddSongButton_KeepsFields(us, m) ==
    IF isAdmin(m.from)
    THEN Result([k \in DOMAIN us \cup {m.from} |->
                    IF k # m.from THEN us[k]
                    ELSE IF k \in DOMAIN us THEN [us[k] EXCEPT !.Stage = "awaiting_title"]
                    ELSE [ZeroState EXCEPT !.Stage = "awaiting_title"]],
                <<Send("Please enter the song title: (or type /cancel to abort)")>>)
    ELSE Result(us, NotAuthorized("add songs"))

AddSongButton(us, m) ==
    IF isAdmin(m.from)
    THEN Result(Put(us, m.from, [ZeroState EXCEPT !.Stage = "awaiting_title"]),
                <<Send("Please enter the song title: (or type /cancel to abort)")>>)
    ELSE Result(us, NotAuthorized("add songs"))

\* Mutant: the Edit button without the gate.
EditSongButton_NoGate(us, m) ==
    Result([k \in DOMAIN us \cup {m.from} |->
               IF k = m.from
               THEN [ZeroState EXCEPT !.Stage = "edit_select_song", !.IsEditing = TRUE]
               ELSE us[k]],
           <<Send("Please enter the title of the song you want to edit:")>>)

EditSongButton(us, m) ==
    IF isAdmin(m.from)
    THEN Result(Put(us, m.from,
                    [ZeroState EXCEPT !.Stage = "edit_select_song", !.IsEditing = TRUE]),
                <<Send("Please enter the title of the song you want to edit:")>>)
    ELSE Result(us, NotAuthorized("edit songs"))

UploadImageButton(us, m) ==
    IF isAdmin(m.from)
    THEN Result(us, <<Send("Please send me the image you want to upload.")>>)
    ELSE Result(us, NotAuthorized("upload images"))

-----------------------------------------------------------------------------
(* handleUpdate: the stages of the Add dialog *)

\* Mutant: the title step reads the word Cancel as a request to stop.
AwaitingTitle_CancelAborts(us, m, state) ==
    IF m.text = "Cancel"
    THEN Result([k \in DOMAIN us \ {m.from} |-> us[k]],
                <<Send("Song addition cancelled.")>>)
    ELSE Result([k \in DOMAIN us \cup {m.from} |->
                    IF k = m.from
                    THEN [ZeroState EXCEPT !.Stage = "awaiting_category", !.Title = m.text]
                    ELSE us[k]],
                <<Send("Please select the song category:")>>)

\* Mutant: the title step goes on to the lyrics, past the category.
AwaitingTitle_SkipsCategory(us, m, state) ==
    Result([k \in DOMAIN us \cup {m.from} |->
               IF k = m.from
               THEN [ZeroState EXCEPT !.Stage = "awaiting_lyrics", !.Title = m.text]
               ELSE us[k]],
           <<Send("Great! Now please enter the lyrics:")>>)

AwaitingTitle(us, m, state) ==
    Result(Put(us, m.from,
               [ZeroState EXCEPT !.Stage = "awaiting_category", !.Title = m.text]),
           <<Send("Please select the song category:")>>)

\* Mutant: a rejected category ends the dialog.
AwaitingCategory_RejectDeletes(us, m, state) ==
    IF m.text # "Choir" /\ m.text # "Non-Choir"
    THEN Result([k \in DOMAIN us \ {m.from} |-> us[k]],
                <<Send("Please select a valid category (Choir/Non-Choir):")>>)
    ELSE Result([k \in DOMAIN us \cup {m.from} |->
                    IF k = m.from
                    THEN [ZeroState EXCEPT !.Stage = "awaiting_lyrics",
                                           !.Title = state.Title,
                                           !.Category = m.text]
                    ELSE us[k]],
                <<Send("Great! Now please enter the lyrics:")>>)

\* Mutant: the category step takes whatever text it gets.
AwaitingCategory_AcceptsAny(us, m, state) ==
    Result([k \in DOMAIN us \cup {m.from} |->
               IF k = m.from
               THEN [ZeroState EXCEPT !.Stage = "awaiting_lyrics",
                                      !.Title = state.Title,
                                      !.Category = m.text]
               ELSE us[k]],
           <<Send("Great! Now please enter the lyrics:")>>)

AwaitingCategory(us, m, state) ==
    IF m.text # "Choir" /\ m.text # "Non-Choir"
    THEN Result(us, <<Send("Please select a valid category (Choir/Non-Choir):")>>)
    ELSE Result(Put(us, m.from,
                    [ZeroState EXCEPT !.Stage = "awaiting_lyrics",
                                      !.Title = state.Title,
                                      !.Category = m.text]),
                <<Send("Great! Now please enter the lyrics:")>>)

\* Mutant: the lyrics step forgets the category.
AwaitingLyrics_DropsCategory(us, m, state) ==
    Result([k \in DOMAIN us \cup {m.from} |->
               IF k = m.from
               THEN [ZeroState EXCEPT !.Stage = "awaiting_image",
                                      !.Title = state.Title,
                                      !.Lyrics = m.text]
               ELSE us[k]],
           <<Send("Perfect! Now please send the image URL or upload an image:")>>)

AwaitingLyrics(us, m, state) ==
    Result(Put(us, m.from,
               [ZeroState EXCEPT !.Stage = "awaiting_image",
                                 !.Title = state.Title,
                                 !.Category = state.Category,
                                 !.Lyrics = m.text]),
           <<Send("Perfect! Now please send the image URL or upload an image:")>>)

\* Mutant: a failed insert leaves the session for a retry.
InsertSong_KeepsOnError(us, m, state, imageURL) ==
    Result(IF m.outcome = "db_err" THEN us ELSE [k \in DOMAIN us \ {m.from} |-> us[k]],
           <<InsertOne([title |-> state.Title,
                        lyrics |-> state.Lyrics,
                        image |-> imageURL,
                        category |-> state.Category])>> \o
           IF m.outcome = "db_err"
           THEN <<Send("Failed to add song.")>>
           ELSE <<Send("Song added successfully!")>>)

\* Mutant: the insert that ends the Add dialog leaves the session.
InsertSong_KeepsSession(us, m, state, imageURL) ==
    Result(us,
           <<InsertOne([title |-> state.Title,
                        lyrics |-> state.Lyrics,
                        image |-> imageURL,
                        category |-> state.Category])>> \o
           IF m.outcome = "db_err"
           THEN <<Send("Failed to add song.")>>
           ELSE <<Send("Song added successfully!")>>)

\* The insert that ends the Add dialog, with the session deleted after it.
InsertSong(us, m, state, imageURL) ==
    Result(Delete(us, m.from),
           <<InsertOne([title |-> state.Title,
                        lyrics |-> state.Lyrics,
                        image |-> imageURL,
                        category |-> state.Category])>> \o
           IF DbErr(m)
           THEN <<Send("Failed to add song.")>>
           ELSE <<Send("Song added successfully!")>>)

\* Mutant: the photo's file reference is stored, without the upload.
AwaitingImage_StoresFileRef(us, m, state) ==
    IF m.photo
    THEN LET r == InsertSong(us, m, state, "FileID") IN
         Result(r.userStates, <<GetFileDirectURL>> \o r.effects)
    ELSE InsertSong(us, m, state, m.text)

\* Mutant: a failed upload ends the dialog.
AwaitingImage_FailureDeletes(us, m, state) ==
    IF m.photo
    THEN IF MediaFailure(m) # ""
         THEN Result([k \in DOMAIN us \ {m.from} |-> us[k]],
                     MediaCalls(m) \o <<Send(MediaFailure(m))>>)
         ELSE LET r == InsertSong(us, m, state, ImgurLink) IN
              Result(r.userStates, MediaCalls(m) \o r.effects)
    ELSE InsertSong(us, m, state, m.text)

AwaitingImage(us, m, state) ==
    IF m.photo
    THEN IF MediaFailure(m) # ""
         THEN Result(us, MediaCalls(m) \o <<Send(MediaFailure(m))>>)
         ELSE LET r == InsertSong(us, m, state, ImgurLink) IN
              Result(r.userStates, MediaCalls(m) \o r.effects)
    ELSE InsertSong(us, m, state, m.text)

-----------------------------------------------------------------------------
(* handleUpdate: the stages of the Edit dialog *)

\* Mutant: a song that is not found ends the dialog.
EditSelectSong_FailureDeletes(us, m, state) ==
    IF FindOneErr(m)
    THEN Result([k \in DOMAIN us \ {m.from} |-> us[k]],
                <<FindOne(m.text), Send("Song not found. Please try again:")>>)
    ELSE Result([k \in DOMAIN us \cup {m.from} |->
                    IF k = m.from
                    THEN [ZeroState EXCEPT !.Stage = "edit_select_field",
                                           !.Title = m.text,
                                           !.IsEditing = TRUE]
                    ELSE us[k]],
                <<FindOne(m.text), Send("What would you like to edit?")>>)

EditSelectSong(us, m, state) ==
    IF FindOneErr(m)
    THEN Result(us, <<FindOne(m.text), Send("Song not found. Please try again:")>>)
    ELSE Result(Put(us, m.from,
                    [ZeroState EXCEPT !.Stage = "edit_select_field",
                                      !.Title = m.text,
                                      !.IsEditing = TRUE]),
                <<FindOne(m.text), Send("What would you like to edit?")>>)

\* Mutant: the second word of the label, as written.
FieldOfLabel_KeepsCase(text) == SplitSpace(text)[2]

\* strings.ToLower(strings.Split(text, " ")[1])
FieldOfLabel(text) == ToLower(SplitSpace(text)[2])

\* Mutant: the field step asks again when the text is no field label.
EditSelectField_Reprompts(us, m, state) ==
    IF m.text \in EditLabels
    THEN Result([k \in DOMAIN us \cup {m.from} |->
                    IF k = m.from
                    THEN [ZeroState EXCEPT !.Stage = "edit_enter_value",
                                           !.Title = state.Title,
                                           !.IsEditing = TRUE,
                                           !.EditField = FieldOfLabel(m.text)]
                    ELSE us[k]],
                <<Send("Please enter the new " \o FieldOfLabel(m.text) \o ":")>>)
    ELSE IF m.text = "Cancel"
    THEN Result([k \in DOMAIN us \ {m.from} |-> us[k]],
                <<Send("Edit cancelled.")>> \o sendMainMenu)
    ELSE Result(us, <<Send("What would you like to edit?")>>)

\* Mutant: Cancel at the field step answers and leaves the session.
EditSelectField_CancelKeeps(us, m, state) ==
    IF m.text \in EditLabels
    THEN Result([k \in DOMAIN us \cup {m.from} |->
                    IF k = m.from
                    THEN [ZeroState EXCEPT !.Stage = "edit_enter_value",
                                           !.Title = state.Title,
                                           !.IsEditing = TRUE,
                                           !.EditField = FieldOfLabel(m.text)]
                    ELSE us[k]],
                <<Send("Please enter the new " \o FieldOfLabel(m.text) \o ":")>>)
    ELSE IF m.text = "Cancel"
    THEN Result(us, <<Send("Edit cancelled.")>> \o sendMainMenu)
    ELSE Result(us, handleAlphabetSelection(m))

\* Mutant: the field step starts from an empty session and loses the title.
EditSelectField_DropsTitle(us, m, state) ==
    IF m.text \in EditLabels
    THEN Result([k \in DOMAIN us \cup {m.from} |->
                    IF k = m.from
                    THEN [ZeroState EXCEPT !.Stage = "edit_enter_value",
                                           !.IsEditing = TRUE,
                                           !.EditField = FieldOfLabel(m.text)]
                    ELSE us[k]],
                <<Send("Please enter the new " \o FieldOfLabel(m.text) \o ":")>>)
    ELSE IF m.text = "Cancel"
    THEN Result([k \in DOMAIN us \ {m.from} |-> us[k]],
                <<Send("Edit cancelled.")>> \o sendMainMenu)
    ELSE Result(us, handleAlphabetSelection(m))

EditSelectField(us, m, state) ==
    IF m.text \in EditLabels
    THEN Result(Put(us, m.from,
                    [ZeroState EXCEPT !.Stage = "edit_enter_value",
                                      !.Title = state.Title,
                                      !.IsEditing = TRUE,
                                      !.EditField = FieldOfLabel(m.text)]),
                <<Send("Please enter the new " \o FieldOfLabel(m.text) \o ":")>>)
    ELSE IF m.text = "Cancel"
    THEN Result(Delete(us, m.from), <<Send("Edit cancelled.")>> \o sendMainMenu)
    ELSE Result(us, handleAlphabetSelection(m))

\* Mutant: the update is filtered by the text just received.
EditEnterValue_FiltersByValue(us, m, state) ==
    Result([k \in DOMAIN us \ {m.from} |-> us[k]],
           <<UpdateOne(m.text, state.EditField, m.text)>> \o
           (IF m.outcome = "db_err"
            THEN <<Send("Failed to update the song.")>>
            ELSE <<Send("Song updated successfully!")>>) \o
           sendMainMenu)

\* Mutant: the value step uploads a photo and stores its link.
EditEnterValue_UploadsPhoto(us, m, state) ==
    IF m.photo
    THEN IF MediaFailure(m) # ""
         THEN Result(us, MediaCalls(m) \o <<Send(MediaFailure(m))>>)
         ELSE Result([k \in DOMAIN us \ {m.from} |-> us[k]],
                     MediaCalls(m) \o
                     <<UpdateOne(state.Title, state.EditField, ImgurLink)>> \o
                     (IF m.outcome = "db_err"
                      THEN <<Send("Failed to update the song.")>>
                      ELSE <<Send("Song updated successfully!")>>) \o
                     sendMainMenu)
    ELSE Result([k \in DOMAIN us \ {m.from} |-> us[k]],
                <<UpdateOne(state.Title, state.EditField, m.text)>> \o
                (IF m.outcome = "db_err"
                 THEN <<Send("Failed to update the song.")>>
                 ELSE <<Send("Song updated successfully!")>>) \o
                sendMainMenu)

EditEnterValue(us, m, state) ==
    Result(Delete(us, m.from),
           <<UpdateOne(state.Title, state.EditField, m.text)>> \o
           (IF DbErr(m)
            THEN <<Send("Failed to update the song.")>>
            ELSE <<Send("Song updated successfully!")>>) \o
           sendMainMenu)

-----------------------------------------------------------------------------
(* handleUpdate: the default branch of the button switch *)

\* Mutant: the stage dispatch trusts the session and skips the gate.
StageDispatch_TrustsSession(us, m) ==
    LET state == Get(us, m.from) IN
    IF Exists(us, m.from)
    THEN CASE state.Stage = "awaiting_title" -> AwaitingTitle(us, m, state)
           [] state.Stage = "awaiting_category" -> AwaitingCategory(us, m, state)
           [] state.Stage = "awaiting_lyrics" -> AwaitingLyrics(us, m, state)
           [] state.Stage = "awaiting_image" -> AwaitingImage(us, m, state)
           [] state.Stage = "edit_select_song" -> EditSelectSong(us, m, state)
           [] state.Stage = "edit_select_field" -> EditSelectField(us, m, state)
           [] state.Stage = "edit_enter_value" -> EditEnterValue(us, m, state)
           [] OTHER -> Result(us, handleAlphabetSelection(m))
    ELSE Result(us, handleAlphabetSelection(m))

StageDispatch(us, m) ==
    LET state == Get(us, m.from) IN
    IF isAdmin(m.from) /\ Exists(us, m.from)
    THEN CASE state.Stage = "awaiting_title" -> AwaitingTitle(us, m, state)
           [] state.Stage = "awaiting_category" -> AwaitingCategory(us, m, state)
           [] state.Stage = "awaiting_lyrics" -> AwaitingLyrics(us, m, state)
           [] state.Stage = "awaiting_image" -> AwaitingImage(us, m, state)
           [] state.Stage = "edit_select_song" -> EditSelectSong(us, m, state)
           [] state.Stage = "edit_select_field" -> EditSelectField(us, m, state)
           [] state.Stage = "edit_enter_value" -> EditEnterValue(us, m, state)
           [] OTHER -> Result(us, handleAlphabetSelection(m))
    ELSE Result(us, handleAlphabetSelection(m))

ButtonSwitch(us, m) ==
    CASE m.text = SearchLyricsLabel ->
            Result(us, <<Send("Please enter a letter (A-Z) to see available songs, ...")>>)
      [] m.text = ViewAllLabel ->
            Result(us, <<Send("Please select a letter (A-Z) to see songs starting with that letter:")>>)
      [] m.text = UploadImageLabel -> UploadImageButton(us, m)
      [] m.text = AddSongLabel -> AddSongButton(us, m)
      [] m.text = HelpLabel -> Result(us, <<Send("Welcome to Maranatha Choir Lyrics Bot! ...")>>)
      [] m.text = ChoirSongsLabel -> Result(us, showSongsByCategory(m, "Choir"))
      [] m.text = NonChoirSongsLabel -> Result(us, showSongsByCategory(m, "Non-Choir"))
      [] m.text = EditSongLabel -> EditSongButton(us, m)
      [] m.text = RandomSongLabel -> Result(us, getRandomSong(m))
      [] OTHER -> StageDispatch(us, m)

handleUpdate(us, m) ==
    IF IsCommand(m) THEN CommandSwitch(us, m) ELSE ButtonSwitch(us, m)

-----------------------------------------------------------------------------
(* The updates the model delivers.  The first administrator sends every    *)
(* text and command of the model; the second administrator and the other   *)
(* user send a core set that still walks both dialogs end to end.          *)

Primary == 547900737

FreeTexts ==
    {"Choir", "Non-Choir", "Cancel", MenuHelpLabel, "A"} \cup EditLabels

CoreTexts == {"Choir", "Edit Title"}

CoreButtons == {AddSongLabel, EditSongLabel, UploadImageLabel, RandomSongLabel}

Upd(kind, from, command, args, text, photo, data, outcome) ==
    [kind |-> kind, from |-> from, command |-> command, args |-> args,
     text |-> text, photo |-> photo, data |-> data, outcome |-> outcome]

NoUpdate == Upd("none", 0, "", <<>>, "", FALSE, "", "ok")

QueryOutcomes == {"ok", "not_found", "db_err"}
MediaOutcomes == {"ok", "getfile_err", "download_err", "upload_err", "db_err"}

AddSongArgs ==
    {<<>>, <<"T", Sep, "L">>, <<"T", Sep, "L", Sep, "U">>,
     <<Space, Sep, "L", Sep, Space, "U", Space>>, <<"T", Sep, "L", Sep, "U", Sep, "x">>}

\* An update of kind "message" that is a command.
Cmd(u, c, args, photo, o) == Upd("message", u, c, args, "", photo, "", o)

\* An update of kind "message" that is no command: a text, or a photo.
Msg(u, t, photo, o) == Upd("message", u, "", <<>>, t, photo, "", o)

CommandUpdates ==
    {Cmd(u, c, <<>>, FALSE, "ok") : u \in Users, c \in {"start", "cancel", "uploadimage"}}
    \cup {Cmd(u, "addsong", <<"T", Sep, "L", Sep, "U">>, FALSE, o) :
            u \in Users, o \in {"ok", "db_err"}}
    \cup {Cmd(Primary, "addsong", a, FALSE, "ok") : a \in AddSongArgs}
    \cup {Cmd(Primary, c, <<>>, FALSE, "ok") : c \in {"help", "unknown"}}
    \cup {Cmd(Primary, "uploadimage", <<>>, TRUE, o) : o \in MediaOutcomes \ {"db_err"}}
    \cup {Cmd(Primary, "lyrics", <<"A">>, FALSE, o) : o \in QueryOutcomes}

\* The buttons whose handlers query the collection.
QueryButtons == {ChoirSongsLabel, NonChoirSongsLabel, RandomSongLabel}

TextUpdates ==
    {Msg(Primary, t, FALSE, "ok") : t \in ButtonLabels}
    \cup {Msg(Primary, t, FALSE, o) : t \in QueryButtons, o \in QueryOutcomes}
    \cup {Msg(Primary, t, FALSE, o) : t \in FreeTexts \cup {""}, o \in QueryOutcomes}
    \cup {Msg(u, t, FALSE, "ok") : u \in Users, t \in CoreButtons}
    \cup {Msg(u, t, FALSE, o) : u \in Users, t \in CoreTexts, o \in {"ok", "not_found"}}

PhotoUpdates ==
    {Msg(Primary, "", TRUE, o) : o \in MediaOutcomes}
    \cup {Msg(u, "", TRUE, "ok") : u \in Users \ adminIDs}

CallbackUpdates ==
    {Upd("callback", Primary, "", <<>>, "", FALSE, "A", o) : o \in QueryOutcomes}
    \cup {Upd("callback", u, "", <<>>, "", FALSE, "new_series", "ok") : u \in Users}

OtherUpdates == {Upd("other", u, "", <<>>, "", FALSE, "", "ok") : u \in Users}

Updates ==
    CommandUpdates \cup TextUpdates \cup PhotoUpdates \cup CallbackUpdates \cup OtherUpdates

-----------------------------------------------------------------------------
(* History variables.  run is written from the updates alone, never from   *)
(* the session table; cancelled and completed record how a dialog ended.   *)

\* A message that is neither a command nor one of the switch's button labels.
IsDialogInput(m) == m.kind = "message" /\ ~IsCommand(m) /\ m.text \notin ButtonLabels

IsButton(m, label) == m.kind = "message" /\ ~IsCommand(m) /\ m.text = label

NoRun == [flow |-> "off", inputs |-> <<>>, done |-> FALSE]

\* The Add inputs, in order: a title, a category out of the two, the
\* lyrics, and an image: a text, or a photo whose upload succeeds.  The Edit
\* inputs: a title the lookup finds, one of the four labels, the new value.
\* Whatever else the user sends in between leaves the run as it is, except
\* /cancel, Cancel at the field choice, or a new press of Add or Edit.
RunAfter(r, m) ==
    LET n == Len(r.inputs)
        more(x) == [r EXCEPT !.inputs = Append(@, x)]
        last(x) == [r EXCEPT !.inputs = Append(@, x), !.done = TRUE]
    IN
    IF r.done THEN NoRun
    ELSE IF IsButton(m, AddSongLabel) /\ m.from \in adminIDs
    THEN [flow |-> "add", inputs |-> <<>>, done |-> FALSE]
    ELSE IF IsButton(m, EditSongLabel) /\ m.from \in adminIDs
    THEN [flow |-> "edit", inputs |-> <<>>, done |-> FALSE]
    ELSE IF m.kind = "message" /\ m.command = "cancel" THEN NoRun
    ELSE IF ~IsDialogInput(m) THEN r
    ELSE IF r.flow = "add"
    THEN CASE n = 0 -> more(m.text)
           [] n = 1 -> IF m.text \in {"Choir", "Non-Choir"} THEN more(m.text) ELSE r
           [] n = 2 -> more(m.text)
           [] OTHER -> IF ~m.photo THEN last(m.text)
                       ELSE IF m.outcome \in {"getfile_err", "download_err", "upload_err"}
                       THEN r
                       ELSE last(ImgurLink)
    ELSE IF r.flow = "edit"
    THEN CASE n = 0 -> IF m.outcome \notin {"not_found", "db_err"} THEN more(m.text) ELSE r
           [] n = 1 -> IF m.text \in EditLabels THEN more(m.text)
                       ELSE IF m.text = "Cancel" THEN NoRun
                       ELSE r
           [] OTHER -> last(m.text)
    ELSE r

History(m) ==
    /\ run' = [run EXCEPT ![m.from] = RunAfter(@, m)]
    /\ cancelled' =
         IF m.kind = "message" /\ m.command = "cancel" /\ Exists(userStates, m.from)
         THEN cancelled \cup {m.from}
         ELSE IF IsButton(m, AddSongLabel) \/ IsButton(m, EditSongLabel)
         THEN cancelled \ {m.from}
         ELSE cancelled
    /\ completed' = completed

-----------------------------------------------------------------------------
(* The update loop of main: for update := range updates { ... }.  Handlers *)
(* are called in the loop itself, one after the other.                     *)

Init ==
    /\ userStates = <<>>
    /\ pc = "receive"
    /\ update = NoUpdate
    /\ effects = <<>>
    /\ prevStates = <<>>
    /\ run = [u \in Users |-> NoRun]
    /\ cancelled = {}
    /\ completed = [on |-> FALSE, last |-> {}]
    /\ handlers = {}

\* if update.Message != nil { handleUpdate(bot, update, collection) }
HandleMessage ==
    /\ pc = "receive"
    /\ \E m \in Updates :
         /\ m.kind = "message"
         /\ update' = m
         /\ LET r == handleUpdate(userStates, m) IN
              /\ userStates' = r.userStates
              /\ effects' = r.effects
         /\ History(m)
    /\ prevStates' = userStates
    /\ pc' = "handled"
    /\ UNCHANGED handlers

\* else if update.CallbackQuery != nil { handleCallbackQuery(...) }
HandleCallback ==
    /\ pc = "receive"
    /\ \E m \in Updates :
         /\ m.kind = "callback"
         /\ update' = m
         /\ LET r == handleCallbackQuery(userStates, m) IN
              /\ userStates' = r.userStates
              /\ effects' = r.effects
         /\ History(m)
    /\ prevStates' = userStates
    /\ pc' = "handled"
    /\ UNCHANGED handlers

\* An update that is neither a message nor a callback is dropped.
Skip ==
    /\ pc = "receive"
    /\ \E m \in Updates :
         /\ m.kind = "other"
         /\ update' = m
         /\ History(m)
    /\ effects' = <<>>
    /\ prevStates' = userStates
    /\ pc' = "handled"
    /\ UNCHANGED <<userStates, handlers>>

\* The history of completed dialogs after the update m, whose handler made
\* the calls fx.
Completed(c, m, fx) ==
    IF ~c.on THEN c
    ELSE IF IsDialogInput(m) /\ \E i \in 1..Len(fx) : fx[i].op \in {"InsertOne", "UpdateOne"}
    THEN [c EXCEPT !.last = {d \in @ : d.from # m.from} \cup {m}]
    ELSE IF IsButton(m, AddSongLabel) \/ IsButton(m, EditSongLabel)
    THEN [c EXCEPT !.last = {d \in @ : d.from # m.from}]
    ELSE c

\* Mutant: the loop ends when the handled update met a failure.
Loop_StopsOnFailure ==
    /\ pc = "handled"
    /\ update.outcome \in {"ok", "not_found"}
    /\ pc' = "receive"
    /\ update' = NoUpdate
    /\ effects' = <<>>
    /\ prevStates' = userStates
    /\ run' = [u \in Users |-> IF run[u].done THEN [flow |-> "off", inputs |-> <<>>, done |-> FALSE] ELSE run[u]]
    /\ completed' = Completed(completed, update, effects)
    /\ UNCHANGED <<userStates, cancelled, handlers>>

\* The handler has returned; the loop waits for the next update.
Loop ==
    /\ pc = "handled"
    /\ pc' = "receive"
    /\ update' = NoUpdate
    /\ effects' = <<>>
    /\ prevStates' = userStates
    /\ run' = [u \in Users |-> IF run[u].done THEN NoRun ELSE run[u]]
    /\ completed' = Completed(completed, update, effects)
    /\ UNCHANGED <<userStates, cancelled, handlers>>

Next == HandleMessage \/ HandleCallback \/ Skip \/ Loop

Spec == Init /\ [][Next]_vars

-----------------------------------------------------------------------------
(* handleUpdate on a table that holds a session of a user outside adminIDs. *)
(* Starting from the empty table the loop never builds such a table (the    *)
(* Add and Edit buttons are gated and adminIDs is never assigned), so the   *)
(* gate in front of the stage dispatch is exercised by handing the loop a   *)
(* table that has one, one session per stage as the handlers store them.    *)

GateSessions ==
    {[ZeroState EXCEPT !.Stage = "awaiting_title"],
     [ZeroState EXCEPT !.Stage = "awaiting_category", !.Title = "T"],
     [ZeroState EXCEPT !.Stage = "awaiting_lyrics", !.Title = "T", !.Category = "Choir"],
     [ZeroState EXCEPT !.Stage = "awaiting_image", !.Title = "T", !.Category = "Choir",
                       !.Lyrics = "L"],
     [ZeroState EXCEPT !.Stage = "edit_select_song", !.IsEditing = TRUE],
     [ZeroState EXCEPT !.Stage = "edit_select_field", !.Title = "T", !.IsEditing = TRUE],
     [ZeroState EXCEPT !.Stage = "edit_enter_value", !.Title = "T", !.IsEditing = TRUE,
                       !.EditField = "title"]}

\* The tables: a session of the user outside adminIDs, with or without a
\* session of the first administrator beside it.
GateTables ==
    {[k \in {424242} |-> s] : s \in GateSessions}
    \cup {[k \in {424242, Primary} |-> IF k = Primary THEN t ELSE s] :
            s \in GateSessions, t \in GateSessions}

GateInit ==
    /\ userStates \in GateTables
    /\ pc = "receive"
    /\ update = NoUpdate
    /\ effects = <<>>
    /\ prevStates = userStates
    /\ run = [u \in Users |-> NoRun]
    /\ cancelled = {}
    /\ completed = [on |-> FALSE, last |-> {}]
    /\ handlers = {}

\* The loop with the history of completed dialogs kept.
RepeatInit ==
    /\ userStates = <<>>
    /\ pc = "receive"
    /\ update = NoUpdate
    /\ effects = <<>>
    /\ prevStates = <<>>
    /\ run = [u \in Users |-> NoRun]
    /\ cancelled = {}
    /\ completed = [on |-> TRUE, last |-> {}]
    /\ handlers = {}

RepeatSpec == RepeatInit /\ [][Next]_vars

\* The loop, with the updates of the user outside adminIDs.
GateNext == Next /\ (pc' = "handled" => update'.from \notin adminIDs)

GateSpec == GateInit /\ [][GateNext]_vars

-----------------------------------------------------------------------------
(* Vocabulary of the properties.  In a state with pc = "handled" the       *)
(* variables describe one handled update: update, the table before         *)
(* (prevStates) and after (userStates), and the calls made (effects).      *)

Handled == pc = "handled"

Sender == update.from

\* The sender's session as the handler found it.
HadSession == Exists(prevStates, Sender)
Before == Get(prevStates, Sender)

Calls(name) == SelectSeq(effects, LAMBDA e : e.op = name)

Sent(text) == \E i \in 1..Len(effects) : effects[i].op = "Send" /\ effects[i].arg = text

NoMutation == Calls("InsertOne") = <<>> /\ Calls("UpdateOne") = <<>>

MediaFailed == update.photo /\ update.outcome \in {"getfile_err", "download_err", "upload_err"}

\* The update reached the stage dispatch with the sender's session at stage.
DialogInputAt(stage) ==
    /\ Handled
    /\ IsDialogInput(update)
    /\ Sender \in adminIDs
    /\ HadSession
    /\ Before.Stage = stage

-----------------------------------------------------------------------------
\* C1: for a privileged user, the inputs Add button, title T, category C out
\* of "Choir" and "Non-Choir", lyrics L and an image resolving to U (a text U,
\* or a photo whose fetch and upload succeed) issue exactly one InsertOne, in
\* the step of the image, with title T, category C, lyrics L and image U, and
\* leave the user without a session.
C1_AddFlowInsertsOnce ==
    \A u \in Users :
        (Handled /\ Sender = u /\ run[u].flow = "add"
            /\ (IsDialogInput(update) \/ IsButton(update, AddSongLabel)))
        => IF run[u].done
           THEN /\ Calls("InsertOne") =
                     <<InsertOne([title |-> run[u].inputs[1],
                                  category |-> run[u].inputs[2],
                                  lyrics |-> run[u].inputs[3],
                                  image |-> run[u].inputs[4]])>>
                /\ Calls("UpdateOne") = <<>>
                /\ ~Exists(userStates, u)
           ELSE NoMutation /\ Exists(userStates, u)

C1_Witness ==
    /\ Handled
    /\ run[Sender].flow = "add"
    /\ run[Sender].done
    /\ update.photo
    /\ run[Sender].inputs[4] = ImgurLink
    /\ run[Sender].inputs[1] # run[Sender].inputs[3]
    /\ Len(Calls("InsertOne")) = 1

\* C2: a photo at AwaitingImage whose file lookup, download or upload fails
\* issues no InsertOne and leaves the session table as it was (stage
\* AwaitingImage, title, category and lyrics kept); a text sent at
\* AwaitingImage issues exactly one InsertOne with the session's title,
\* category and lyrics and the text as image, and deletes the session.
C2_FailedPhotoKeepsSession ==
    DialogInputAt("awaiting_image") =>
        IF MediaFailed
        THEN /\ NoMutation
             /\ userStates = prevStates
             /\ userStates[Sender].Stage = "awaiting_image"
             /\ Len(effects) > 0
             /\ effects[Len(effects)].op = "Send"
        ELSE ~update.photo =>
             /\ Calls("InsertOne") =
                  <<InsertOne([title |-> Before.Title,
                               category |-> Before.Category,
                               lyrics |-> Before.Lyrics,
                               image |-> update.text])>>
             /\ ~Exists(userStates, Sender)

C2_Witness ==
    /\ DialogInputAt("awaiting_image")
    /\ MediaFailed
    /\ update.outcome = "upload_err"
    /\ Sent("Failed to upload image to Imgur.")
    /\ userStates[Sender].Title # ""

\* C3: a text other than "Choir" and "Non-Choir" at AwaitingCategory leaves
\* the session at AwaitingCategory with every field as it was.
C3_BadCategoryKeepsSession ==
    (DialogInputAt("awaiting_category") /\ update.text \notin {"Choir", "Non-Choir"})
    => /\ Exists(userStates, Sender)
       /\ userStates[Sender] = Before
       /\ userStates[Sender].Stage = "awaiting_category"
       /\ NoMutation

C3_Witness ==
    /\ DialogInputAt("awaiting_category")
    /\ update.text = "Edit Lyrics"
    /\ Before.Title = "Cancel"
    /\ Sent("Please select a valid category (Choir/Non-Choir):")

\* C4: /cancel from a user with a session, at whichever stage, deletes the
\* session; from then until the user presses Add or Edit the user has no
\* session, and every text of theirs goes to the alphabet handler, writes no
\* session and issues no InsertOne and no UpdateOne.
C4_CancelEndsDialog ==
    /\ (Handled /\ update.kind = "message" /\ update.command = "cancel" /\ HadSession)
       => (~Exists(userStates, Sender) /\ Sender \in cancelled)
    /\ \A u \in cancelled : ~Exists(userStates, u)
    /\ (Handled /\ IsDialogInput(update) /\ Sender \in cancelled)
       => /\ userStates = prevStates
          /\ NoMutation
          /\ effects = handleAlphabetSelection(update)

C4_Witness ==
    /\ Handled
    /\ IsDialogInput(update)
    /\ Sender \in cancelled
    /\ update.text = "Choir"
    /\ \E v \in Users \ {Sender} : Exists(userStates, v)

\* The field each label of the Edit keyboard names.
FieldNamed(label) ==
    CASE label = "Edit Title" -> "title"
      [] label = "Edit Lyrics" -> "lyrics"
      [] label = "Edit Category" -> "category"
      [] label = "Edit Image" -> "image"

\* C5: in the Edit dialog, after the title T found at EditSelectSong and the
\* label chosen at EditSelectField, the text V at EditEnterValue issues
\* exactly one UpdateOne, filtered by title T and setting the chosen field,
\* and no other, to V; the filter is T also when the field is the title.
C5_EditUpdatesChosenField ==
    \A u \in Users :
        (Handled /\ Sender = u /\ run[u].flow = "edit"
            /\ (IsDialogInput(update) \/ IsButton(update, EditSongLabel)))
        => IF run[u].done
           THEN /\ Len(Calls("UpdateOne")) = 1
                /\ LET c == Calls("UpdateOne")[1].arg
                       f == FieldNamed(run[u].inputs[2])
                   IN /\ c.filter = [title |-> run[u].inputs[1]]
                      /\ DOMAIN c.set = {f}
                      /\ c.set[f] = run[u].inputs[3]
                /\ Calls("InsertOne") = <<>>
           ELSE NoMutation

C5_Witness ==
    /\ Handled
    /\ run[Sender].flow = "edit"
    /\ run[Sender].done
    /\ run[Sender].inputs[2] = "Edit Title"
    /\ run[Sender].inputs[1] # run[Sender].inputs[3]
    /\ Len(Calls("UpdateOne")) = 1

\* C6: the Add or the Edit button pressed by a user who is not privileged
\* sends the not-authorized message, creates no session for that user and
\* changes no session of any user.
C6_OutsiderIsDenied ==
    (Handled /\ Sender \notin adminIDs
        /\ (IsButton(update, AddSongLabel) \/ IsButton(update, EditSongLabel)))
    => /\ effects = <<Send(IF update.text = AddSongLabel
                           THEN "You are not authorized to add songs."
                           ELSE "You are not authorized to edit songs.")>>
       /\ ~Exists(userStates, Sender)
       /\ userStates = prevStates

C6_Witness ==
    /\ Handled
    /\ Sender \notin adminIDs
    /\ IsButton(update, EditSongLabel)
    /\ Sent("You are not authorized to edit songs.")
    /\ \E v \in Users : Exists(userStates, v)

\* C7: every InsertOne and every UpdateOne, of the Add dialog, of the Edit
\* dialog and of /addsong, is issued while an update of a privileged sender is
\* handled.
C7_OnlyAdminsMutate ==
    (Handled /\ ~NoMutation) => Sender \in adminIDs

C7_Witness ==
    /\ Handled
    /\ update.command = "addsong"
    /\ Len(Calls("InsertOne")) = 1
    /\ Sender \in adminIDs

\* The sender's own part of a session table.
Own(us, u) == [k \in DOMAIN us \cap {u} |-> us[k]]

\* What the loop body does with an update.
Handle(us, m) ==
    CASE m.kind = "message" -> handleUpdate(us, m)
      [] m.kind = "callback" -> handleCallbackQuery(us, m)
      [] OTHER -> Result(us, <<>>)

\* C8: handling an update of one user never creates, changes or deletes the
\* session of another, and what it does (the sender's next session and the
\* calls made) is what it does with the other users' sessions taken away.
C8_SessionsAreIsolated ==
    Handled =>
        /\ \A v \in Users \ {Sender} :
              /\ Exists(userStates, v) <=> Exists(prevStates, v)
              /\ Exists(prevStates, v) => userStates[v] = prevStates[v]
        /\ LET alone == Handle(Own(prevStates, Sender), update) IN
              /\ effects = alone.effects
              /\ Own(userStates, Sender) = alone.userStates

C8_Witness ==
    /\ Handled
    /\ \E v \in Users \ {Sender} :
          Exists(prevStates, v) /\ prevStates[v].Stage = "edit_enter_value"
    /\ HadSession
    /\ ~Exists(userStates, Sender)
    /\ Len(Calls("InsertOne")) = 1

\* C9: at EditSelectSong, a text for which the lookup by title finds no
\* document, or fails, is answered by the reprompt; the session stays, at
\* EditSelectSong, with its fields as they were.
C9_UnknownSongReprompts ==
    (DialogInputAt("edit_select_song") /\ update.outcome \in {"not_found", "db_err"})
    => /\ effects = <<FindOne(update.text), Send("Song not found. Please try again:")>>
       /\ userStates = prevStates
       /\ Exists(userStates, Sender)
       /\ userStates[Sender].Stage = "edit_select_song"

C9_Witness ==
    /\ DialogInputAt("edit_select_song")
    /\ update.outcome = "not_found"
    /\ Sent("Song not found. Please try again:")
    /\ update.text = "Cancel"

\* C10: the step that ends a dialog (a text, or a photo that was uploaded, at
\* AwaitingImage; a text at EditEnterValue) deletes the sender's session,
\* whether its InsertOne or UpdateOne succeeds or fails, and makes that call
\* once.
C10_TerminalStepDeletes ==
    /\ (DialogInputAt("awaiting_image") /\ ~MediaFailed)
       => /\ ~Exists(userStates, Sender)
          /\ Len(Calls("InsertOne")) = 1
          /\ Calls("UpdateOne") = <<>>
          /\ Sent(IF update.outcome = "db_err"
                  THEN "Failed to add song." ELSE "Song added successfully!")
    /\ DialogInputAt("edit_enter_value")
       => /\ ~Exists(userStates, Sender)
          /\ Len(Calls("UpdateOne")) = 1
          /\ Calls("InsertOne") = <<>>
          /\ Sent(IF update.outcome = "db_err"
                  THEN "Failed to update the song." ELSE "Song updated successfully!")

C10_Witness ==
    /\ DialogInputAt("edit_enter_value")
    /\ update.outcome = "db_err"
    /\ Sent("Failed to update the song.")
    /\ ~Exists(userStates, Sender)

\* A session as the Add or the Edit button creates it.
FreshSessions ==
    {[ZeroState EXCEPT !.Stage = "awaiting_title"],
     [ZeroState EXCEPT !.Stage = "edit_select_song", !.IsEditing = TRUE]}

\* C11: a message that is a command, or whose text is a label of the
\* main-menu keyboard, sent by a user with a session at any stage, is not
\* handled by the stage dispatch: it is stored in no field of the session (the
\* session is left as it was, deleted by /cancel, or replaced by a fresh one by
\* Add or Edit) and it is written to the collection by no InsertOne and no
\* UpdateOne of the dialog.
C11_MenuLabelsBypassDispatch ==
    (Handled /\ update.kind = "message" /\ HadSession
        /\ (IsCommand(update) \/ update.text \in MenuLabels))
    => /\ Exists(userStates, Sender) =>
             userStates[Sender] \in {Before} \cup FreshSessions
       /\ ~Exists(userStates, Sender) => update.command = "cancel"
       /\ update.command # "addsong" => NoMutation

\* The text Cancel, sent as a plain message by a user with a session.
CancelTextAt(stage) == DialogInputAt(stage) /\ update.text = "Cancel" /\ ~update.photo

\* C12 as stated: the text "Cancel" sent at any dialog stage is taken by the
\* button branch and never reaches the state machine, so it is stored in no
\* field of the session and written by no InsertOne and no UpdateOne.
C12_CancelIsAButton ==
    (Handled /\ HadSession /\ update.kind = "message" /\ ~IsCommand(update)
        /\ update.text = "Cancel")
    => /\ Exists(userStates, Sender) => userStates[Sender] = Before
       /\ NoMutation
       /\ effects # <<>> => effects[1].op # "FindOne"

\* C12, amended: the text "Cancel" is no label of the button branch and
\* reaches the stage dispatch like any other text.  Only at EditSelectField
\* does it end the dialog, with nothing stored.  At AwaitingTitle it becomes the
\* title, at AwaitingCategory it is rejected as a category, at AwaitingLyrics it
\* becomes the lyrics, at AwaitingImage it is inserted as the image, at
\* EditSelectSong it is the title looked up (and kept when found), and at
\* EditEnterValue it is the value written.
C12_CancelTextIsFreeText ==
    /\ CancelTextAt("edit_select_field")
       => /\ ~Exists(userStates, Sender)
          /\ NoMutation
          /\ effects = <<Send("Edit cancelled.")>> \o sendMainMenu
    /\ CancelTextAt("awaiting_title")
       => /\ Exists(userStates, Sender)
          /\ userStates[Sender] =
                [ZeroState EXCEPT !.Stage = "awaiting_category", !.Title = "Cancel"]
    /\ CancelTextAt("awaiting_category")
       => /\ userStates = prevStates
          /\ Sent("Please select a valid category (Choir/Non-Choir):")
    /\ CancelTextAt("awaiting_lyrics")
       => /\ Exists(userStates, Sender)
          /\ userStates[Sender] =
                [Before EXCEPT !.Stage = "awaiting_image", !.Lyrics = "Cancel"]
    /\ CancelTextAt("awaiting_image")
       => /\ Calls("InsertOne") =
                <<InsertOne([title |-> Before.Title, lyrics |-> Before.Lyrics,
                             image |-> "Cancel", category |-> Before.Category])>>
          /\ ~Exists(userStates, Sender)
    /\ CancelTextAt("edit_select_song")
       => /\ effects # <<>>
          /\ effects[1] = FindOne("Cancel")
          /\ Exists(userStates, Sender)
          /\ userStates[Sender] =
                IF update.outcome = "ok"
                THEN [Before EXCEPT !.Stage = "edit_select_field", !.Title = "Cancel"]
                ELSE Before
    /\ CancelTextAt("edit_enter_value")
       => /\ Calls("UpdateOne") =
                <<UpdateOne(Before.Title, Before.EditField, "Cancel")>>
          /\ ~Exists(userStates, Sender)

C12_Witness ==
    /\ CancelTextAt("awaiting_title")
    /\ Exists(userStates, Sender)
    /\ userStates[Sender].Title = "Cancel"
    /\ userStates[Sender].Stage = "awaiting_category"

\* The catalog-browsing events: the commands /start, /help and /lyrics, and
\* the browsing buttons of the main-menu keyboard, Help included (the label
\* the keyboard sends and the label the switch matches).
IsBrowsing(m) ==
    /\ m.kind = "message"
    /\ \/ m.command \in {"start", "help", "lyrics"}
       \/ /\ ~IsCommand(m)
          /\ m.text \in {SearchLyricsLabel, ViewAllLabel, ChoirSongsLabel,
                         NonChoirSongsLabel, RandomSongLabel, HelpLabel, MenuHelpLabel}

\* C13: a browsing command or menu button sent by a user with a session at
\* any stage leaves the session table as it was (the sender's session present,
\* same stage, same fields) and writes nothing to the collection, so that the
\* user's next text is handled from that same stage.
C13_BrowsingKeepsSession ==
    (Handled /\ HadSession /\ IsBrowsing(update))
    => /\ userStates = prevStates
       /\ NoMutation

\* The events that end a dialog: /cancel, the text Cancel at EditSelectField,
\* and the terminal steps: at AwaitingImage a text or a photo whose fetch and
\* upload succeed, at EditEnterValue any text.
EndsDialog(m, session) ==
    /\ m.kind = "message"
    /\ \/ m.command = "cancel"
       \/ /\ IsDialogInput(m)
          /\ \/ session.Stage = "edit_select_field" /\ m.text = "Cancel"
             \/ /\ session.Stage = "awaiting_image"
                /\ ~(m.photo /\ m.outcome \in {"getfile_err", "download_err", "upload_err"})
             \/ session.Stage = "edit_enter_value"

\* C14: a step that takes a session out of the table is the handling of an
\* update of the session's own user, and that update is /cancel, Cancel at
\* EditSelectField, or a terminal step; no other step (the loop waiting, an
\* update of another user, any other update of the same user) removes it.
C14_SessionLivesUntilEnded ==
    [][\A u \in Users :
          (Exists(userStates, u) /\ ~Exists(userStates', u))
          => /\ pc' = "handled"
             /\ update'.from = u
             /\ EndsDialog(update', userStates[u])]_vars

C14_Witness ==
    /\ Handled
    /\ HadSession
    /\ Before.Stage = "edit_select_field"
    /\ update.text = "Cancel"
    /\ ~Exists(userStates, Sender)
    /\ \E v \in Users \ {Sender} : Exists(userStates, v) /\ Exists(prevStates, v)

\* C15: every InsertOne, of the Add dialog and of /addsong, carries a title
\* that is not the empty string.
C15_InsertHasTitle ==
    Handled =>
        \A i \in 1..Len(effects) :
            effects[i].op = "InsertOne" => effects[i].arg.title # ""

\* The Add dialog, too, inserts an empty title: a photo at AwaitingTitle has
\* no text.
C15_DialogInsertsEmptyTitle ==
    /\ DialogInputAt("awaiting_image")
    /\ Before.Title = ""
    /\ Len(Calls("InsertOne")) = 1
    /\ Calls("InsertOne")[1].arg.title = ""

\* C16: a text or a photo that reaches the stage dispatch from a sender
\* outside adminIDs, also when the table holds a session for that sender at
\* whichever stage, leaves the whole table as it was (the session neither
\* advanced nor deleted), issues no InsertOne and no UpdateOne, and is handled
\* by the alphabet handler.
C16_GateIsRechecked ==
    (Handled /\ IsDialogInput(update) /\ Sender \notin adminIDs)
    => /\ userStates = prevStates
       /\ NoMutation
       /\ effects = handleAlphabetSelection(update)

C16_Witness ==
    /\ Handled
    /\ IsDialogInput(update)
    /\ Sender \notin adminIDs
    /\ HadSession
    /\ Before.Stage = "awaiting_image"
    /\ update.photo
    /\ Exists(userStates, Sender)
    /\ userStates[Sender] = Before
    /\ Sent("Please select a valid alphabet (A-Z).")

-----------------------------------------------------------------------------
(* The loop with the handler's steps spelled out.  A handler is called, reads  *)
(* the sender's session (state, exists := userStates[id]), makes its external  *)
(* calls, writes or deletes the session, sends its reply and returns.  The     *)
(* loop calls the handler itself (handleUpdate(...), no go statement): it      *)
(* receives the next update when the call has returned.  Updates that are      *)
(* neither a message nor a callback call no handler.                           *)

\* The handlers that read the table: /cancel, and the default branch of the
\* button switch for a sender the gate lets through.
ReadsTable(m) ==
    /\ m.kind = "message"
    /\ \/ m.command = "cancel"
       \/ IsDialogInput(m) /\ isAdmin(m.from)

\* The handlers that write it without reading: the Add and Edit buttons.
WritesOnly(m) ==
    /\ IsButton(m, AddSongLabel) \/ IsButton(m, EditSongLabel)
    /\ isAdmin(m.from)

TouchesTable(m) == ReadsTable(m) \/ WritesOnly(m)

\* A call of a handler: its update, the point it has reached ("called",
\* "read": it has read the session and has not written it yet, "returning":
\* past its last access of the table) and the session it read.
Activation(m, at, seen) == [update |-> m, at |-> at, seen |-> seen]

\* Mutant: go handleUpdate(...), the loop goes on receiving.
CallHandler_Spawns(m) ==
    /\ handlers' = handlers \cup {[update |-> m, at |-> "called", seen |-> <<>>]}
    /\ pc' = "receive"

\* handleUpdate(bot, update, collection): the loop is in the call.
CallHandler(m) ==
    /\ handlers' = handlers \cup {Activation(m, "called", <<>>)}
    /\ pc' = "in_call"

Dispatch ==
    /\ pc = "receive"
    /\ \E m \in Updates :
         /\ m.kind \in {"message", "callback"}
         /\ CallHandler(m)
    /\ UNCHANGED <<userStates, update, effects, prevStates, run, cancelled, completed>>

ReadSession ==
    /\ \E h \in handlers :
         /\ h.at = "called"
         /\ ReadsTable(h.update)
         /\ handlers' = (handlers \ {h})
                \cup {Activation(h.update, "read", Own(userStates, h.update.from))}
    /\ UNCHANGED <<userStates, pc, update, effects, prevStates, run, cancelled, completed>>

\* The rest of the handler up to its last access of the table: the external
\* calls, then the write or the delete of the sender's session, computed from
\* the session the handler read.
Complete ==
    /\ \E h \in handlers :
         /\ h.at = "read" \/ (h.at = "called" /\ ~ReadsTable(h.update))
         /\ LET m == h.update
                seen == IF h.at = "read" THEN h.seen ELSE Own(userStates, m.from)
                r == Handle(seen, m)
            IN userStates' =
                  IF ~TouchesTable(m) THEN userStates
                  ELSE IF Exists(r.userStates, m.from)
                  THEN Put(userStates, m.from, r.userStates[m.from])
                  ELSE Delete(userStates, m.from)
         /\ handlers' = (handlers \ {h}) \cup {Activation(h.update, "returning", <<>>)}
    /\ UNCHANGED <<pc, update, effects, prevStates, run, cancelled, completed>>

Return ==
    /\ \E h \in handlers :
         /\ h.at = "returning"
         /\ handlers' = handlers \ {h}
    /\ pc' = "receive"
    /\ UNCHANGED <<userStates, update, effects, prevStates, run, cancelled, completed>>

StepNext == Dispatch \/ ReadSession \/ Complete \/ Return

StepSpec == Init /\ [][StepNext]_vars

\* C17: at most one handler is between its read of a session and its write
\* or delete of it, and while a handler is there (suspended in a collection
\* call, a media fetch or an upload) no handler of another update takes a
\* step that reads or writes the table.
C17_TableAccessExclusive ==
    /\ [](Cardinality({h \in handlers : h.at = "read"}) <= 1)
    /\ [][\A g \in handlers :
             (g \notin handlers' /\ g.at \in {"called", "read"} /\ TouchesTable(g.update))
             => \A h \in handlers \ {g} : h.at # "read"]_vars

C17_Witness ==
    \E h \in handlers :
        /\ h.at = "read"
        /\ h.update.photo
        /\ Exists(h.seen, h.update.from)
        /\ h.seen[h.update.from].Stage = "awaiting_image"
        /\ pc = "in_call"
        /\ \E v \in Users \ {h.update.from} : Exists(userStates, v)

FieldNames == {"title", "lyrics", "category", "image"}

\* C18: in every reachable state, every session of the table has an
\* EditField out of title, lyrics, category, image when its stage is
\* EditEnterValue, and the empty EditField at every other stage.
C18_EditFieldOnlyAtEnterValue ==
    \A u \in DOMAIN userStates :
        IF userStates[u].Stage = "edit_enter_value"
        THEN userStates[u].EditField \in FieldNames
        ELSE userStates[u].EditField = ""

C18_Witness ==
    /\ \E u \in DOMAIN userStates :
          /\ userStates[u].Stage = "edit_enter_value"
          /\ userStates[u].EditField = "category"
    /\ \E v \in DOMAIN userStates :
          /\ userStates[v].Stage = "edit_select_field"
          /\ userStates[v].EditField = ""
    /\ Handled
    /\ HadSession
    /\ Before.Stage = "edit_select_field"
    /\ update.text = "Edit Category"

\* The position of the first call named name among the effects, 0 if none.
FirstCall(name) ==
    IF \E i \in 1..Len(effects) : effects[i].op = name
    THEN CHOOSE i \in 1..Len(effects) :
            effects[i].op = name /\ \A j \in 1..(i - 1) : effects[j].op # name
    ELSE 0

\* C19: at AwaitingImage, a photo issues an InsertOne only when the file
\* lookup, the download and the upload have all succeeded, after the upload,
\* and with the link the upload returned as image; a photo whose pipeline
\* fails issues none; a text is inserted as the image as it is; and the
\* photo's file reference is the image of no InsertOne.
C19_ImageIsResolved ==
    DialogInputAt("awaiting_image") =>
        /\ \A i \in 1..Len(effects) :
              effects[i].op = "InsertOne" => effects[i].arg.image # GetFileDirectURL.arg
        /\ IF update.photo
           THEN IF MediaFailed
                THEN Calls("InsertOne") = <<>>
                ELSE /\ Len(Calls("InsertOne")) = 1
                     /\ Calls("InsertOne")[1].arg.image = ImgurLink
                     /\ FirstCall("uploadImageToImgur") > 0
                     /\ FirstCall("uploadImageToImgur") < FirstCall("InsertOne")
           ELSE /\ Len(Calls("InsertOne")) = 1
                /\ Calls("InsertOne")[1].arg.image = update.text
                /\ FirstCall("uploadImageToImgur") = 0

C19_Witness ==
    /\ DialogInputAt("awaiting_image")
    /\ update.photo
    /\ update.outcome = "db_err"
    /\ Len(Calls("InsertOne")) = 1
    /\ Calls("InsertOne")[1].arg.image = ImgurLink
    /\ Before.Lyrics # ""

\* C20: at EditSelectField each of the labels Edit Title, Edit Lyrics, Edit
\* Category and Edit Image moves the sender's session to EditEnterValue with
\* EditField title, lyrics, category and image respectively (the second word
\* of the label in lower case) and with the title stored at EditSelectSong
\* as it was; nothing is written to the collection.
C20_LabelSelectsField ==
    (DialogInputAt("edit_select_field") /\ update.text \in EditLabels)
    => /\ Exists(userStates, Sender)
       /\ userStates[Sender].Stage = "edit_enter_value"
       /\ userStates[Sender].EditField = FieldNamed(update.text)
       /\ userStates[Sender].Title = Before.Title
       /\ NoMutation

C20_Witness ==
    /\ DialogInputAt("edit_select_field")
    /\ update.text = "Edit Image"
    /\ Exists(userStates, Sender)
    /\ userStates[Sender].EditField = "image"
    /\ userStates[Sender].Title = "Edit Image"

\* C21: the text Cancel at EditSelectField deletes the sender's session,
\* leaves the other sessions alone and issues no UpdateOne and no InsertOne.
C21_CancelAtFieldChoice ==
    (DialogInputAt("edit_select_field") /\ update.text = "Cancel")
    => /\ ~Exists(userStates, Sender)
       /\ userStates = [k \in DOMAIN prevStates \ {Sender} |-> prevStates[k]]
       /\ NoMutation

C21_Witness ==
    /\ DialogInputAt("edit_select_field")
    /\ update.text = "Cancel"
    /\ Before.Title = "Edit Lyrics"
    /\ ~Exists(userStates, Sender)
    /\ Sent("Edit cancelled.")
    /\ \E v \in Users \ {Sender} : Exists(userStates, v)

\* C22: a callback whose payload is one of the placeholder tokens is
\* answered by the coming-soon message, any other payload is looked up as a
\* title; either way the session table after the callback is the table
\* before it, also when the sender has a session, and nothing is written to
\* the collection.
C22_CallbacksLeaveSessions ==
    (Handled /\ update.kind = "callback")
    => /\ userStates = prevStates
       /\ NoMutation
       /\ IF update.data \in PlaceholderTokens
          THEN /\ Calls("FindOne") = <<>>
               /\ Sent("You selected: " \o update.data \o " This feature is coming soon!")
          ELSE /\ Calls("FindOne") = <<FindOne(update.data)>>
               /\ effects[1] = FindOne(update.data)
       /\ effects[Len(effects)] = AnswerCallback

C22_Witness ==
    /\ Handled
    /\ update.kind = "callback"
    /\ update.data = "A"
    /\ update.outcome = "ok"
    /\ HadSession
    /\ Before.Stage = "awaiting_image"
    /\ Exists(userStates, Sender)
    /\ Calls("SendPhoto") # <<>>

\* A call to the collection, the file API or the image host was made while
\* the update was handled, and it failed.
FailedCall ==
    \/ /\ update.outcome \in {"getfile_err", "download_err", "upload_err"}
       /\ Calls("GetFileDirectURL") # <<>>
    \/ /\ update.outcome = "db_err"
       /\ \E i \in 1..Len(effects) :
            effects[i].op \in {"FindOne", "Find", "Aggregate", "InsertOne", "UpdateOne"}
    \/ /\ update.outcome = "not_found"
       /\ Calls("FindOne") # <<>>

\* C23: when a call to an external collaborator fails while an update is
\* handled, the handler returns and the loop goes on to the next update, and
\* whatever that update is, it is handled; the session table is changed only
\* as the failing transition says: the sender's session is deleted when the
\* final InsertOne or UpdateOne of a dialog was attempted, and the table is
\* left as it was in every other case.
C23_FailuresAreIsolated ==
    /\ (Handled /\ FailedCall)
       => /\ ENABLED Loop
          /\ userStates =
               IF IsDialogInput(update) /\ ~NoMutation
               THEN [k \in DOMAIN prevStates \ {Sender} |-> prevStates[k]]
               ELSE prevStates
    /\ pc = "receive" => (ENABLED HandleMessage /\ ENABLED HandleCallback /\ ENABLED Skip)

C23_Witness ==
    /\ DialogInputAt("awaiting_image")
    /\ update.photo
    /\ update.outcome = "upload_err"
    /\ FailedCall
    /\ Exists(userStates, Sender)
    /\ userStates = prevStates
    /\ ENABLED Loop

\* C24: in every reachable state each user who has a session is one of the
\* two privileged users.
C24_SessionsArePrivileged ==
    \A u \in DOMAIN userStates : u \in adminIDs

C24_Witness ==
    /\ Handled
    /\ Sender \notin adminIDs
    /\ IsButton(update, EditSongLabel)
    /\ DOMAIN userStates = adminIDs
    /\ \E u \in adminIDs : userStates[u].Stage = "edit_enter_value"

\* C25: the Add button, pressed by a privileged user who has a session,
\* replaces it by a session at AwaitingTitle whose title, category, lyrics
\* and edit field are empty; the Edit button replaces it by such a session at
\* EditSelectSong; neither issues InsertOne or UpdateOne, and the sessions of
\* the other users stay as they were.
C25_ButtonsRestartTheDialog ==
    (Handled /\ Sender \in adminIDs /\ HadSession
        /\ (IsButton(update, AddSongLabel) \/ IsButton(update, EditSongLabel)))
    => /\ Exists(userStates, Sender)
       /\ userStates[Sender].Stage =
            (IF IsButton(update, AddSongLabel) THEN "awaiting_title" ELSE "edit_select_song")
       /\ userStates[Sender].Title = ""
       /\ userStates[Sender].Category = ""
       /\ userStates[Sender].Lyrics = ""
       /\ userStates[Sender].EditField = ""
       /\ \A k \in DOMAIN prevStates \ {Sender} :
            Exists(userStates, k) /\ userStates[k] = prevStates[k]
       /\ NoMutation

C25_Witness ==
    /\ Handled
    /\ Sender \in adminIDs
    /\ IsButton(update, AddSongLabel)
    /\ HadSession
    /\ Before.Stage = "edit_enter_value"
    /\ Before.Title # ""
    /\ Before.EditField = "lyrics"
    /\ Exists(userStates, Sender)
    /\ userStates[Sender] = [ZeroState EXCEPT !.Stage = "awaiting_title"]

C25_WitnessEdit ==
    /\ Handled
    /\ Sender \in adminIDs
    /\ IsButton(update, EditSongLabel)
    /\ HadSession
    /\ Before.Stage = "awaiting_image"
    /\ Before.Lyrics # ""
    /\ Exists(userStates, Sender)
    /\ userStates[Sender].Stage = "edit_select_song"
    /\ userStates[Sender].Lyrics = ""

\* C26: at EditSelectField a text that is none of the four field labels and
\* not Cancel leaves the session table as it was, issues no UpdateOne and no
\* InsertOne, and is answered by the alphabet-selection handler: the
\* valid-alphabet message for a text that is no single letter, the title
\* query for a letter.
C26_OtherTextAtFieldChoice ==
    (DialogInputAt("edit_select_field") /\ update.text \notin EditLabels \cup {"Cancel"})
    => /\ userStates = prevStates
       /\ NoMutation
       /\ effects = handleAlphabetSelection(update)
       /\ IF update.text \in {"A", "a"}
          THEN effects[1] = Find("^A")
          ELSE effects = <<Send("Please select a valid alphabet (A-Z).")>>

C26_Witness ==
    /\ DialogInputAt("edit_select_field")
    /\ update.text = "Non-Choir"
    /\ Before.Title = "A"
    /\ Exists(userStates, Sender)
    /\ userStates[Sender] = Before
    /\ Sent("Please select a valid alphabet (A-Z).")

C26_WitnessLetter ==
    /\ DialogInputAt("edit_select_field")
    /\ update.text = "A"
    /\ userStates = prevStates
    /\ Sent("Select a song to get the lyrics:")

\* C27: an InsertOne of the Add dialog (any InsertOne but that of /addsong)
\* is issued only for a dialog input that found the sender's session at
\* AwaitingImage, an UpdateOne only for one that found it at EditEnterValue;
\* one handled update issues at most one of them, and the sender's session is
\* gone when it has; so the message that completed a user's dialog, sent
\* again before that user presses Add or Edit, finds no session and issues
\* no InsertOne and no UpdateOne.
C27_OneWritePerDialog ==
    Handled
    => /\ Len(Calls("InsertOne")) + Len(Calls("UpdateOne")) <= 1
       /\ (Calls("InsertOne") # <<>> /\ update.command # "addsong")
            => DialogInputAt("awaiting_image")
       /\ Calls("UpdateOne") # <<>> => DialogInputAt("edit_enter_value")
       /\ (IsDialogInput(update) /\ ~NoMutation) => ~Exists(userStates, Sender)
       /\ \A d \in completed.last :
            /\ ~Exists(prevStates, d.from)
            /\ update = d => ~HadSession /\ NoMutation

C27_Witness ==
    /\ Handled
    /\ update \in completed.last
    /\ update.text = "A"
    /\ update.outcome = "ok"
    /\ NoMutation
    /\ ~Exists(userStates, Sender)
    /\ Calls("Find") # <<>>

C27_WitnessPhoto ==
    /\ Handled
    /\ update \in completed.last
    /\ update.photo
    /\ NoMutation
    /\ Calls("GetFileDirectURL") = <<>>

\* C28: every session at AwaitingLyrics or AwaitingImage has the category
\* Choir or Non-Choir, and so has the document of every InsertOne that ends
\* an Add dialog.
C28_CategoryIsOneOfTwo ==
    /\ \A u \in DOMAIN userStates :
         userStates[u].Stage \in {"awaiting_lyrics", "awaiting_image"}
         => userStates[u].Category \in {"Choir", "Non-Choir"}
    /\ (Handled /\ IsDialogInput(update))
       => \A i \in 1..Len(effects) :
            effects[i].op = "InsertOne"
            => /\ "category" \in DOMAIN effects[i].arg
               /\ effects[i].arg.category \in {"Choir", "Non-Choir"}
               /\ effects[i].arg.category = Before.Category

C28_Witness ==
    /\ DialogInputAt("awaiting_image")
    /\ Calls("InsertOne") # <<>>
    /\ Calls("InsertOne")[1].arg.category = "Non-Choir"
    /\ \E u \in DOMAIN userStates :
         userStates[u].Stage = "awaiting_lyrics" /\ userStates[u].Category = "Choir"

\* The update just handled is a photo that is no command.
PhotoHandled == Handled /\ update.kind = "message" /\ ~IsCommand(update) /\ update.photo

\* C29: outside the commands, the file API and the image host are called
\* only for a photo that found the sender's session at AwaitingImage; a
\* photo at any other stage is handled as the same message with empty text
\* and no photo: at EditEnterValue it issues UpdateOne with the empty string
\* as the value (of image, when that is the edit field) and deletes the
\* session, at AwaitingTitle it stores the empty title and moves to
\* AwaitingCategory.
C29_PhotoOnlyAtImageStep ==
    /\ (Handled /\ update.kind = "message" /\ ~IsCommand(update)
           /\ Calls("GetFileDirectURL") # <<>>)
       => (update.photo /\ DialogInputAt("awaiting_image"))
    /\ (PhotoHandled /\ ~DialogInputAt("awaiting_image"))
       => /\ update.text = ""
          /\ LET r == handleUpdate(prevStates, [update EXCEPT !.photo = FALSE]) IN
               userStates = r.userStates /\ effects = r.effects
    /\ (PhotoHandled /\ DialogInputAt("edit_enter_value"))
       => /\ Calls("UpdateOne") = <<UpdateOne(Before.Title, Before.EditField, "")>>
          /\ ~Exists(userStates, Sender)
    /\ (PhotoHandled /\ DialogInputAt("awaiting_title"))
       => /\ Exists(userStates, Sender)
          /\ userStates[Sender] =
               [ZeroState EXCEPT !.Stage = "awaiting_category", !.Title = ""]

C29_Witness ==
    /\ PhotoHandled
    /\ DialogInputAt("edit_enter_value")
    /\ Before.EditField = "image"
    /\ Before.Title = "Choir"
    /\ Calls("UpdateOne") = <<UpdateOne("Choir", "image", "")>>
    /\ ~Exists(userStates, Sender)

C29_WitnessTitle ==
    /\ PhotoHandled
    /\ DialogInputAt("awaiting_title")
    /\ Exists(userStates, Sender)
    /\ userStates[Sender].Stage = "awaiting_category"
    /\ userStates[Sender].Title = ""
    /\ Calls("GetFileDirectURL") = <<>>

\* C30: every command other than /cancel, /addsong and /uploadimage and
\* the unrecognised ones included, leaves the session table as it was; an
\* /addsong with its three parts, sent by a privileged user in the middle of
\* a dialog, issues its own InsertOne of title, lyrics and image, without a
\* category, and the sender's session keeps its stage and fields.
C30_CommandsLeaveSessions ==
    /\ (Handled /\ update.kind = "message" /\ IsCommand(update)
           /\ update.command # "cancel")
       => /\ userStates = prevStates
          /\ Calls("UpdateOne") = <<>>
          /\ update.command # "addsong" => Calls("InsertOne") = <<>>
    /\ (Handled /\ update.kind = "message" /\ update.command = "addsong"
           /\ Sender \in adminIDs /\ HadSession
           /\ update.args = <<"T", Sep, "L", Sep, "U">>)
       => /\ Calls("InsertOne") =
               <<InsertOne([title |-> "T", lyrics |-> "L", image |-> "U"])>>
          /\ Exists(userStates, Sender)
          /\ userStates[Sender] = Before

C30_Witness ==
    /\ Handled
    /\ update.kind = "message"
    /\ update.command = "addsong"
    /\ HadSession
    /\ Before.Stage = "awaiting_image"
    /\ Before.Category = "Choir"
    /\ Len(Calls("InsertOne")) = 1
    /\ "category" \notin DOMAIN Calls("InsertOne")[1].arg
    /\ Exists(userStates, Sender)
    /\ userStates[Sender] = Before

C30_WitnessUnknown ==
    /\ Handled
    /\ update.kind = "message"
    /\ update.command = "unknown"
    /\ HadSession
    /\ Before.Stage = "edit_enter_value"
    /\ userStates = prevStates

\* C31: /cancel from a user without a session leaves the session table as
\* it was and makes no call at all, so sends nothing; /cancel from a user
\* with a session deletes that session and no other and answers, whether or
\* not the sender is in adminIDs.
C31_CancelIsUngated ==
    (Handled /\ update.kind = "message" /\ update.command = "cancel")
    => IF HadSession
       THEN /\ ~Exists(userStates, Sender)
            /\ userStates = [k \in DOMAIN prevStates \ {Sender} |-> prevStates[k]]
            /\ effects = <<Send("Song addition cancelled.")>>
       ELSE /\ userStates = prevStates
            /\ effects = <<>>

C31_Witness ==
    /\ Handled
    /\ update.kind = "message"
    /\ update.command = "cancel"
    /\ Sender \notin adminIDs
    /\ HadSession
    /\ ~Exists(userStates, Sender)
    /\ Sent("Song addition cancelled.")

C31_WitnessNoSession ==
    /\ Handled
    /\ update.kind = "message"
    /\ update.command = "cancel"
    /\ ~HadSession
    /\ userStates = prevStates
    /\ userStates # <<>>
    /\ effects = <<>>

====
